---- MODULE Spec2Model ----
(***************************************************************************)
(* Model of the kafkaconnector package: the Connector (credentials,        *)
(* channel length, consumer/producer sessions, logger goroutines, manual   *)
(* error handling) and the consumer-group handler Consumer (Setup,         *)
(* ConsumeClaim).  Broker sessions, Go channels and goroutines are state;  *)
(* every exported method and every goroutine step is an action.            *)
(***************************************************************************)
EXTENDS Integers, Sequences, FiniteSets, TLC

(***************************************************************************)
(* Bounds of the model.                                                    *)
(***************************************************************************)
MaxStarts == 2       \* sessions opened in a run (consumer and producer together)
MaxEvents == 2       \* messages the broker and the application put on the channels
MaxReports == 1      \* errors and notifications the broker reports
MaxChanLen == 1      \* largest argument given to SetChannelLength
MaxMsgs == 2         \* messages delivered to the partition claims
NumClaims == 2       \* partition claims consumed at once

(***************************************************************************)
(* The protobuf wire format of a FlowMessage, reduced to two varint        *)
(* fields (Type = 1, TimeReceived = 2).  proto3: zero fields are not       *)
(* written, absent fields read as zero, the last occurrence of a field     *)
(* wins, unknown fields are skipped according to their wire type.          *)
(***************************************************************************)
FieldVals == {0, 1, 150}

FlowMessages == [Type : FieldVals, TimeReceived : FieldVals]

ZeroFlow == [Type |-> 0, TimeReceived |-> 0]

RECURSIVE Varint(_)
Varint(v) ==
    IF v < 128 THEN <<v>> ELSE <<128 + (v % 128)>> \o Varint(v \div 128)

MarshalField(num, v) ==
    IF v = 0 THEN <<>> ELSE <<num * 8>> \o Varint(v)

\* proto.Marshal on the encode path
Marshal(m) == MarshalField(1, m.Type) \o MarshalField(2, m.TimeReceived)

\* Reads one varint at the head of b: [ok, val, rest]
RECURSIVE ReadVarint(_)
ReadVarint(b) ==
    IF b = <<>> THEN [ok |-> FALSE, val |-> 0, rest |-> <<>>]
    ELSE IF Head(b) < 128 THEN [ok |-> TRUE, val |-> Head(b), rest |-> Tail(b)]
    ELSE LET r == ReadVarint(Tail(b))
         IN  [ok |-> r.ok, val |-> (Head(b) - 128) + 128 * r.val, rest |-> r.rest]

Drop(b, n) == SubSeq(b, n + 1, Len(b))

RECURSIVE UnmarshalInto(_, _)
UnmarshalInto(b, m) ==
    IF b = <<>> THEN [ok |-> TRUE, msg |-> m]
    ELSE LET t == ReadVarint(b)
             num == t.val \div 8
             wt == t.val % 8
         IN  IF ~t.ok \/ num = 0 THEN [ok |-> FALSE, msg |-> m]
             ELSE IF wt = 0 THEN
                 LET v == ReadVarint(t.rest)
                 IN  IF ~v.ok THEN [ok |-> FALSE, msg |-> m]
                     ELSE IF num = 1 THEN UnmarshalInto(v.rest, [m EXCEPT !.Type = v.val])
                     ELSE IF num = 2 THEN UnmarshalInto(v.rest, [m EXCEPT !.TimeReceived = v.val])
                     ELSE UnmarshalInto(v.rest, m)
             ELSE IF wt = 1 THEN
                 IF Len(t.rest) < 8 THEN [ok |-> FALSE, msg |-> m]
                 ELSE UnmarshalInto(Drop(t.rest, 8), m)
             ELSE IF wt = 5 THEN
                 IF Len(t.rest) < 4 THEN [ok |-> FALSE, msg |-> m]
                 ELSE UnmarshalInto(Drop(t.rest, 4), m)
             ELSE IF wt = 2 THEN
                 LET l == ReadVarint(t.rest)
                 IN  IF ~l.ok \/ Len(l.rest) < l.val THEN [ok |-> FALSE, msg |-> m]
                     ELSE UnmarshalInto(Drop(l.rest, l.val), m)
             ELSE [ok |-> FALSE, msg |-> m]

\* proto.Unmarshal(message.Value, flowMsg) with flowMsg := new(flow.FlowMessage)
Unmarshal(b) == UnmarshalInto(b, ZeroFlow)


(***************************************************************************)
(* State.  Sessions, channels and goroutines are kept in sequences and     *)
(* referred to by their index; 0 is the nil handle / nil channel.          *)
(***************************************************************************)
VARIABLES
    user, pass,          \* Connector.user, Connector.pass
    consumer,            \* Connector.consumer: 0 or an index of consSessions
    producer,            \* Connector.producer: 0 or an index of prodSessions
    consumerChannel,     \* Connector.consumerChannel: 0 or an index of channels
    producerChannel,     \* Connector.producerChannel: 0 or an index of channels
    manualErrFlag,       \* Connector.manualErrFlag
    manualErrSignal,     \* Connector.manualErrSignal: "nil", "open" or "closed"
    channelLength,       \* Connector.channelLength
    consSessions,        \* cluster.Consumer objects created by NewConsumer
    prodSessions,        \* sarama.AsyncProducer objects created by NewAsyncProducer
    channels,            \* the chan *flow.FlowMessage objects made by Start*
    decoders,            \* goroutines running decodeMessages
    encoders,            \* goroutines running encodeMessages
    loggers,             \* consumer/producer logger goroutines
    panic,               \* "none", or the run-time panic that ended the process
    afterClose,          \* history: the exported method called last was Close
    warned,              \* the last exported call logged a "WARNING: ..." line
    ret,                 \* "err" when the last exported call returned a non-nil error, else "ok"
    events,              \* messages, errors and notifications injected so far
    started,             \* history: some Start* method has been called
    manualEarly          \* history: EnableManualErrorHandling was called before any Start*

connVars == <<user, pass, consumer, producer, consumerChannel, producerChannel,
              manualErrFlag, manualErrSignal, channelLength>>

runVars == <<consSessions, prodSessions, channels, decoders, encoders, loggers>>

\* The consumer-group handler (type Consumer) and the session it serves
VARIABLES
    ready,               \* Consumer.ready: "open" or "closed"
    flows,               \* Consumer.flows: 0 (nil) or the number of the channel made by Setup
    flowsClosed,         \* whether the channel in Consumer.flows has been closed
    phase,               \* the group session: "none", "setup" or "cleanup"
    claimMsgs,           \* claim.Messages() of each partition claim
    claimClosed,         \* whether claim.Messages() has been closed
    claimPc,             \* position of each ConsumeClaim call
    claimCur,            \* flowMsg of each ConsumeClaim call
    marked,              \* per claim: offsets passed to session.MarkMessage, in order
    received,            \* per claim: what the reader of Consumer.flows has taken, in order
    delivered            \* per claim: the messages the broker has put on it, in order

claimVars == <<ready, flows, flowsClosed, phase, claimMsgs, claimClosed, claimPc, claimCur,
               marked, received, delivered>>

vars == <<connVars, runVars, panic, afterClose, warned, ret, events, started,
          manualEarly, claimVars>>

Users == {"alice"}
Passes == {"pw"}
EnvValues == {"", "bob"}

\* Payloads the broker hands to a cluster.Consumer in the connector model
ConnPayloads == {Marshal([Type |-> 1, TimeReceived |-> 150]), <<8>>}

\* FlowMessages the application writes to the producer channel
AppFlows == {[Type |-> 1, TimeReceived |-> 0]}

NoFlow == [Type |-> -1, TimeReceived |-> -1]

NoMsg == [off |-> 0, value |-> <<>>, src |-> NoFlow, flow |-> NoFlow]

Alive == panic = "none"

\* var connector = Connector{}: the zero value of every field
InitConnector ==
    /\ user = "" /\ pass = ""
    /\ consumer = 0 /\ producer = 0
    /\ consumerChannel = 0 /\ producerChannel = 0
    /\ manualErrFlag = FALSE
    /\ manualErrSignal = "nil"
    /\ channelLength = 0
    /\ consSessions = <<>> /\ prodSessions = <<>>
    /\ channels = <<>>
    /\ decoders = <<>> /\ encoders = <<>> /\ loggers = <<>>
    /\ panic = "none"
    /\ afterClose = FALSE
    /\ warned = FALSE
    /\ ret = "ok"
    /\ events = 0
    /\ started = FALSE
    /\ manualEarly = FALSE

Claims == 1..NumClaims

\* &Consumer{ready: make(chan bool)} before the group session begins
InitConsumer ==
    /\ ready = "open"
    /\ flows = 0
    /\ flowsClosed = FALSE
    /\ phase = "none"
    /\ claimMsgs = [c \in Claims |-> <<>>]
    /\ claimClosed = [c \in Claims |-> FALSE]
    /\ claimPc = [c \in Claims |-> "idle"]
    /\ claimCur = [c \in Claims |-> NoMsg]
    /\ marked = [c \in Claims |-> <<>>]
    /\ received = [c \in Claims |-> <<>>]
    /\ delivered = [c \in Claims |-> <<>>]

(***************************************************************************)
(* Credentials and configuration.                                          *)
(***************************************************************************)
SetAuth(u, p) ==
    /\ Alive
    /\ UNCHANGED claimVars
    /\ afterClose' = FALSE
    /\ warned' = FALSE
    /\ user' = u /\ pass' = p
    /\ ret' = "ok"
    /\ UNCHANGED <<consumer, producer, consumerChannel, producerChannel,
                   manualErrFlag, manualErrSignal, channelLength,
                   runVars, panic, events, started, manualEarly>>

\* Mutation: the error is returned only when both values are missing
SetAuthFromEnvBothMissing(eu, ep) ==
    /\ Alive
    /\ UNCHANGED claimVars
    /\ afterClose' = FALSE
    /\ warned' = FALSE
    /\ user' = eu /\ pass' = ep
    /\ ret' = IF eu = "" /\ ep = "" THEN "err" ELSE "ok"
    /\ UNCHANGED <<consumer, producer, consumerChannel, producerChannel,
                   manualErrFlag, manualErrSignal, channelLength,
                   runVars, panic, events, started, manualEarly>>

\* eu, ep: the values of KAFKA_SASL_USER and KAFKA_SASL_PASS ("" when unset)
SetAuthFromEnv(eu, ep) ==
    /\ Alive
    /\ UNCHANGED claimVars
    /\ afterClose' = FALSE
    /\ warned' = FALSE
    /\ user' = eu /\ pass' = ep
    /\ ret' = IF eu = "" \/ ep = "" THEN "err" ELSE "ok"
    /\ UNCHANGED <<consumer, producer, consumerChannel, producerChannel,
                   manualErrFlag, manualErrSignal, channelLength,
                   runVars, panic, events, started, manualEarly>>

SetAuthAnon ==
    /\ Alive
    /\ UNCHANGED claimVars
    /\ afterClose' = FALSE
    /\ warned' = FALSE
    /\ user' = "anon" /\ pass' = "anon"
    /\ ret' = "ok"
    /\ UNCHANGED <<consumer, producer, consumerChannel, producerChannel,
                   manualErrFlag, manualErrSignal, channelLength,
                   runVars, panic, events, started, manualEarly>>

SetChannelLength(l) ==
    /\ Alive
    /\ UNCHANGED claimVars
    /\ afterClose' = FALSE
    /\ warned' = FALSE
    /\ channelLength' = l
    /\ ret' = "ok"
    /\ UNCHANGED <<user, pass, consumer, producer, consumerChannel, producerChannel,
                   manualErrFlag, manualErrSignal,
                   runVars, panic, events, started, manualEarly>>

\* Mutation: the flag is not set
EnableManualErrorHandlingNoFlag ==
    /\ Alive
    /\ UNCHANGED claimVars
    /\ afterClose' = FALSE
    /\ warned' = FALSE
    /\ manualErrFlag' = manualErrFlag
    /\ IF manualErrSignal = "open"
         THEN manualErrSignal' = "closed" /\ panic' = "none"
       ELSE IF manualErrSignal = "closed"
         THEN manualErrSignal' = "closed" /\ panic' = "close of closed channel"
       ELSE manualErrSignal' = "nil" /\ panic' = "none"
    /\ manualEarly' = (manualEarly \/ ~started)
    /\ ret' = "ok"
    /\ UNCHANGED <<user, pass, consumer, producer, consumerChannel, producerChannel,
                   channelLength, runVars, events, started>>

\* close(connector.manualErrSignal) panics when the channel is already closed
EnableManualErrorHandling ==
    /\ Alive
    /\ UNCHANGED claimVars
    /\ afterClose' = FALSE
    /\ warned' = FALSE
    /\ manualErrFlag' = TRUE
    /\ IF manualErrSignal = "open"
         THEN manualErrSignal' = "closed" /\ panic' = "none"
       ELSE IF manualErrSignal = "closed"
         THEN manualErrSignal' = "closed" /\ panic' = "close of closed channel"
       ELSE manualErrSignal' = "nil" /\ panic' = "none"
    /\ manualEarly' = (manualEarly \/ ~started)
    /\ ret' = "ok"
    /\ UNCHANGED <<user, pass, consumer, producer, consumerChannel, producerChannel,
                   channelLength, runVars, events, started>>


(***************************************************************************)
(* Starting sessions.  The outcome of the TLS set-up and of the library's  *)
(* constructor is an input of the call.                                          *)
(***************************************************************************)
\* The signal channel as left by the first statement of both Start* methods
SignalAfterStart ==
    IF ~manualErrFlag /\ manualErrSignal = "nil" THEN "open" ELSE manualErrSignal

\* cluster.NewConfig() with Net.TLS, Net.SASL set as StartConsumer sets them
ConsumerConfig ==
    [tls |-> TRUE, sasl |-> TRUE, user |-> user, pass |-> pass]

\* sarama.NewConfig() as StartProducer leaves it: Net.TLS and Net.SASL untouched
ProducerConfig ==
    [tls |-> FALSE, sasl |-> FALSE, user |-> "", pass |-> ""]

\* Mutation: the channel is made without the configured length
NewChannelUnbuffered == [cap |-> 0, buf |-> <<>>, closed |-> FALSE]

\* make(chan *flow.FlowMessage, connector.channelLength)
NewChannel == [cap |-> channelLength, buf |-> <<>>, closed |-> FALSE]

StartOutcomes == {"tlsErr", "connErr", "ok"}

\* Mutation: the logger is spawned before the constructor's error is checked
LoggersAfterStartEager(kind, outcome) ==
    IF ~manualErrFlag
      THEN Append(loggers, [kind |-> kind, pc |-> "enter", sess |-> 0])
      ELSE loggers

\* if !connector.manualErrFlag { go func() {...}() }, reached only when the
\* constructor returned no error
LoggersAfterStart(kind, outcome) ==
    IF outcome = "ok" /\ ~manualErrFlag
      THEN Append(loggers, [kind |-> kind, pc |-> "enter", sess |-> 0])
      ELSE loggers

StartConsumer(outcome) ==
    /\ Alive
    /\ UNCHANGED claimVars
    /\ afterClose' = FALSE
    /\ warned' = FALSE
    /\ started' = TRUE
    /\ manualErrSignal' = SignalAfterStart
    /\ loggers' = LoggersAfterStart("consumer", outcome)
    /\ UNCHANGED <<user, pass, producer, producerChannel, manualErrFlag, channelLength,
                   prodSessions, encoders, panic, events, manualEarly>>
    /\ \/ /\ outcome = "tlsErr"
          /\ ret' = "err"
          /\ UNCHANGED <<consumer, consumerChannel, consSessions, channels, decoders>>
       \/ /\ outcome = "connErr"
          /\ consumer' = 0
          /\ ret' = "err"
          /\ UNCHANGED <<consumerChannel, consSessions, channels, decoders>>
       \/ /\ outcome = "ok"
          /\ Len(consSessions) + Len(prodSessions) < MaxStarts
          /\ consSessions' = Append(consSessions,
                 [conf |-> ConsumerConfig, closed |-> FALSE,
                  errs |-> 0, notes |-> 0, msgs |-> <<>>])
          /\ consumer' = Len(consSessions) + 1
          /\ channels' = Append(channels, NewChannel)
          /\ consumerChannel' = Len(channels) + 1
          /\ decoders' = Append(decoders,
                 [sess |-> Len(consSessions) + 1, dst |-> Len(channels) + 1,
                  pc |-> "recv", cur |-> NoFlow])
          /\ ret' = "ok"

StartProducer(outcome) ==
    /\ Alive
    /\ UNCHANGED claimVars
    /\ afterClose' = FALSE
    /\ warned' = FALSE
    /\ outcome # "tlsErr"
    /\ started' = TRUE
    /\ manualErrSignal' = SignalAfterStart
    /\ loggers' = LoggersAfterStart("producer", outcome)
    /\ UNCHANGED <<user, pass, consumer, consumerChannel, manualErrFlag, channelLength,
                   consSessions, decoders, panic, events, manualEarly>>
    /\ \/ /\ outcome = "connErr"
          /\ producer' = 0
          /\ ret' = "err"
          /\ UNCHANGED <<producerChannel, prodSessions, channels, encoders>>
       \/ /\ outcome = "ok"
          /\ Len(consSessions) + Len(prodSessions) < MaxStarts
          /\ prodSessions' = Append(prodSessions,
                 [conf |-> ProducerConfig, closed |-> FALSE, errs |-> 0, input |-> 0])
          /\ producer' = Len(prodSessions) + 1
          /\ channels' = Append(channels, NewChannel)
          /\ producerChannel' = Len(channels) + 1
          /\ encoders' = Append(encoders,
                 [sess |-> Len(prodSessions) + 1, src |-> Len(channels) + 1,
                  pc |-> "recv", cur |-> NoFlow])
          /\ ret' = "ok"

(***************************************************************************)
(* Closing sessions.  cluster.Consumer.Close runs once (closeOnce), closes *)
(* Messages(), Errors() and Notifications() and drains what is left in     *)
(* them.  AsyncProducer.Close                                              *)
(* runs shutdown, which sends on the input channel and then closes input   *)
(* and errors, after Close itself has drained Errors(): on a producer that *)
(* is already shut down the send hits the closed input channel.            *)
(***************************************************************************)
ConsumerClose(ss, s) ==
    [ss EXCEPT ![s].closed = TRUE, ![s].errs = 0, ![s].notes = 0, ![s].msgs = <<>>]

AsyncProducerClose(ps, p) == [ps EXCEPT ![p].closed = TRUE, ![p].errs = 0]

AsyncProducerClosePanics(ps, p) == ps[p].closed

Close ==
    /\ Alive
    /\ UNCHANGED claimVars
    /\ afterClose' = TRUE
    /\ warned' = FALSE
    /\ consSessions' = IF consumer # 0 THEN ConsumerClose(consSessions, consumer)
                       ELSE consSessions
    /\ IF producer # 0 /\ AsyncProducerClosePanics(prodSessions, producer)
         THEN panic' = "send on closed channel" /\ UNCHANGED prodSessions
       ELSE /\ panic' = "none"
            /\ prodSessions' = IF producer # 0 THEN AsyncProducerClose(prodSessions, producer)
                               ELSE prodSessions
    /\ ret' = "ok"
    /\ UNCHANGED <<connVars, channels, decoders, encoders, loggers, events,
                   started, manualEarly>>

\* Mutation: closing the consumer also forgets the producer channel
CloseConsumerDropsProducerChannel ==
    /\ Alive
    /\ UNCHANGED claimVars
    /\ afterClose' = FALSE
    /\ warned' = (consumer = 0)
    /\ consSessions' = IF consumer # 0 THEN ConsumerClose(consSessions, consumer)
                       ELSE consSessions
    /\ ret' = "ok"
    /\ producerChannel' = 0
    /\ UNCHANGED <<user, pass, consumer, producer, consumerChannel, manualErrFlag,
                   manualErrSignal, channelLength, prodSessions, channels, decoders,
                   encoders, loggers, panic, events, started, manualEarly>>

CloseConsumer ==
    /\ Alive
    /\ UNCHANGED claimVars
    /\ afterClose' = FALSE
    /\ warned' = (consumer = 0)
    /\ consSessions' = IF consumer # 0 THEN ConsumerClose(consSessions, consumer)
                       ELSE consSessions
    /\ ret' = "ok"
    /\ UNCHANGED <<connVars, prodSessions, channels, decoders, encoders, loggers,
                   panic, events, started, manualEarly>>

CloseProducer ==
    /\ Alive
    /\ UNCHANGED claimVars
    /\ afterClose' = FALSE
    /\ warned' = (producer = 0)
    /\ IF producer # 0 /\ AsyncProducerClosePanics(prodSessions, producer)
         THEN panic' = "send on closed channel" /\ UNCHANGED prodSessions
       ELSE /\ panic' = "none"
            /\ prodSessions' = IF producer # 0 THEN AsyncProducerClose(prodSessions, producer)
                               ELSE prodSessions
    /\ ret' = "ok"
    /\ UNCHANGED <<connVars, consSessions, channels, decoders, encoders, loggers,
                   events, started, manualEarly>>

(***************************************************************************)
(* Accessors.  Errors() and Notifications() are called on the handle       *)
(* without a nil check.                                                    *)
(***************************************************************************)
ConsumerChannel ==
    /\ Alive
    /\ UNCHANGED claimVars
    /\ afterClose' = FALSE
    /\ warned' = FALSE
    /\ ret' = "ok"
    /\ UNCHANGED <<connVars, runVars, panic, events, started, manualEarly>>

ProducerChannel ==
    /\ Alive
    /\ UNCHANGED claimVars
    /\ afterClose' = FALSE
    /\ warned' = FALSE
    /\ ret' = "ok"
    /\ UNCHANGED <<connVars, runVars, panic, events, started, manualEarly>>

ConsumerErrors ==
    /\ Alive
    /\ UNCHANGED claimVars
    /\ afterClose' = FALSE
    /\ warned' = FALSE
    /\ IF consumer = 0
         THEN panic' = "nil pointer dereference" /\ UNCHANGED ret
         ELSE panic' = "none" /\ ret' = "ok"
    /\ UNCHANGED <<connVars, runVars, events, started, manualEarly>>

ConsumerNotifications ==
    /\ Alive
    /\ UNCHANGED claimVars
    /\ afterClose' = FALSE
    /\ warned' = FALSE
    /\ IF consumer = 0
         THEN panic' = "nil pointer dereference" /\ UNCHANGED ret
         ELSE panic' = "none" /\ ret' = "ok"
    /\ UNCHANGED <<connVars, runVars, events, started, manualEarly>>

ProducerErrors ==
    /\ Alive
    /\ UNCHANGED claimVars
    /\ afterClose' = FALSE
    /\ warned' = FALSE
    /\ IF producer = 0
         THEN panic' = "nil pointer dereference" /\ UNCHANGED ret
         ELSE panic' = "none" /\ ret' = "ok"
    /\ UNCHANGED <<connVars, runVars, events, started, manualEarly>>


(***************************************************************************)
(* The logger goroutines.  Each turn of `for running { select {...} }`     *)
(* first evaluates connector.consumer / connector.producer (the closure    *)
(* reads the field anew on every turn) and then waits on the channels of   *)
(* that session and on the signal channel.                                 *)
(***************************************************************************)
Handle(kind) == IF kind = "consumer" THEN consumer ELSE producer

LoggerEnter(g) ==
    /\ Alive
    /\ UNCHANGED claimVars
    /\ g \in DOMAIN loggers
    /\ loggers[g].pc = "enter"
    /\ IF Handle(loggers[g].kind) = 0
         THEN panic' = "nil pointer dereference" /\ UNCHANGED loggers
         ELSE /\ panic' = "none"
              /\ loggers' = [loggers EXCEPT ![g].pc = "select",
                                            ![g].sess = Handle(loggers[g].kind)]
    /\ UNCHANGED <<connVars, consSessions, prodSessions, channels, decoders, encoders,
                   ret, afterClose, warned, events, started, manualEarly>>

\* case msg, ok := <-connector.consumer.Errors() / <-connector.producer.Errors()
LoggerErrors(g) ==
    /\ Alive
    /\ UNCHANGED claimVars
    /\ g \in DOMAIN loggers
    /\ loggers[g].pc = "select"
    /\ LET s == loggers[g].sess
       IN  IF loggers[g].kind = "consumer"
           THEN /\ UNCHANGED prodSessions
                /\ \/ /\ consSessions[s].errs > 0
                      /\ consSessions' = [consSessions EXCEPT ![s].errs = @ - 1]
                      /\ loggers' = [loggers EXCEPT ![g].pc = "enter"]
                   \/ /\ consSessions[s].errs = 0 /\ consSessions[s].closed
                      /\ loggers' = [loggers EXCEPT ![g].pc = "done"]
                      /\ UNCHANGED consSessions
           ELSE /\ UNCHANGED consSessions
                /\ \/ /\ prodSessions[s].errs > 0
                      /\ prodSessions' = [prodSessions EXCEPT ![s].errs = @ - 1]
                      /\ loggers' = [loggers EXCEPT ![g].pc = "enter"]
                   \/ /\ prodSessions[s].errs = 0 /\ prodSessions[s].closed
                      /\ loggers' = [loggers EXCEPT ![g].pc = "done"]
                      /\ UNCHANGED prodSessions
    /\ UNCHANGED <<connVars, channels, decoders, encoders, panic, ret, afterClose,
                   warned, events,
                   started, manualEarly>>

\* case msg, ok := <-connector.consumer.Notifications()
LoggerNotifications(g) ==
    /\ Alive
    /\ UNCHANGED claimVars
    /\ g \in DOMAIN loggers
    /\ loggers[g].pc = "select"
    /\ loggers[g].kind = "consumer"
    /\ LET s == loggers[g].sess
       IN  \/ /\ consSessions[s].notes > 0
              /\ consSessions' = [consSessions EXCEPT ![s].notes = @ - 1]
              /\ loggers' = [loggers EXCEPT ![g].pc = "enter"]
           \/ /\ consSessions[s].notes = 0 /\ consSessions[s].closed
              /\ loggers' = [loggers EXCEPT ![g].pc = "done"]
              /\ UNCHANGED consSessions
    /\ UNCHANGED <<connVars, prodSessions, channels, decoders, encoders, panic, ret,
                   afterClose, warned,
                   events, started, manualEarly>>

\* case _, ok := <-connector.manualErrSignal: nothing is ever sent, so the
\* case is ready only once the channel is closed, and then ok is false
LoggerSignal(g) ==
    /\ Alive
    /\ UNCHANGED claimVars
    /\ g \in DOMAIN loggers
    /\ loggers[g].pc = "select"
    /\ manualErrSignal = "closed"
    /\ loggers' = [loggers EXCEPT ![g].pc = "done"]
    /\ UNCHANGED <<connVars, consSessions, prodSessions, channels, decoders, encoders,
                   panic, ret, afterClose, warned, events, started, manualEarly>>

(***************************************************************************)
(* decodeMessages(consumer, dst) and encodeMessages(producer, topic, src). *)
(***************************************************************************)
DecodeRecv(d) ==
    /\ Alive
    /\ UNCHANGED claimVars
    /\ d \in DOMAIN decoders
    /\ decoders[d].pc = "recv"
    /\ LET s == decoders[d].sess
           c == decoders[d].dst
       IN  \/ /\ consSessions[s].msgs # <<>>
              /\ consSessions' = [consSessions EXCEPT ![s].msgs = Tail(@)]
              /\ LET u == Unmarshal(Head(consSessions[s].msgs))
                 IN  decoders' = IF u.ok
                                   THEN [decoders EXCEPT ![d].pc = "send", ![d].cur = u.msg]
                                   ELSE decoders
              /\ UNCHANGED channels
           \/ /\ consSessions[s].msgs = <<>> /\ consSessions[s].closed
              /\ channels' = [channels EXCEPT ![c].closed = TRUE]
              /\ decoders' = [decoders EXCEPT ![d].pc = "done"]
              /\ UNCHANGED consSessions
    /\ UNCHANGED <<connVars, prodSessions, encoders, loggers, panic, ret, afterClose,
                   warned, events,
                   started, manualEarly>>

DecodeSend(d) ==
    /\ Alive
    /\ UNCHANGED claimVars
    /\ d \in DOMAIN decoders
    /\ decoders[d].pc = "send"
    /\ LET c == decoders[d].dst
       IN  /\ Len(channels[c].buf) < channels[c].cap
           /\ channels' = [channels EXCEPT ![c].buf = Append(@, decoders[d].cur)]
    /\ decoders' = [decoders EXCEPT ![d].pc = "recv", ![d].cur = NoFlow]
    /\ UNCHANGED <<connVars, consSessions, prodSessions, encoders, loggers, panic, ret,
                   afterClose, warned,
                   events, started, manualEarly>>

EncodeRecv(e) ==
    /\ Alive
    /\ UNCHANGED claimVars
    /\ e \in DOMAIN encoders
    /\ encoders[e].pc = "recv"
    /\ LET c == encoders[e].src
       IN  /\ channels[c].buf # <<>>
           /\ encoders' = [encoders EXCEPT ![e].pc = "send", ![e].cur = Head(channels[c].buf)]
           /\ channels' = [channels EXCEPT ![c].buf = Tail(@)]
    /\ UNCHANGED <<connVars, consSessions, prodSessions, decoders, loggers, panic, ret,
                   afterClose, warned,
                   events, started, manualEarly>>

\* producer.Input() <- &sarama.ProducerMessage{...}: Input() is closed by Close
EncodeSend(e) ==
    /\ Alive
    /\ UNCHANGED claimVars
    /\ e \in DOMAIN encoders
    /\ encoders[e].pc = "send"
    /\ LET s == encoders[e].sess
       IN  IF prodSessions[s].closed
             THEN panic' = "send on closed channel" /\ UNCHANGED <<prodSessions, encoders>>
             ELSE /\ panic' = "none"
                  /\ prodSessions' = [prodSessions EXCEPT ![s].input = @ + Len(Marshal(encoders[e].cur))]
                  /\ encoders' = [encoders EXCEPT ![e].pc = "recv", ![e].cur = NoFlow]
    /\ UNCHANGED <<connVars, consSessions, channels, decoders, loggers, ret,
                   afterClose, warned, events,
                   started, manualEarly>>

(***************************************************************************)
(* The environment: the application reading and writing the typed          *)
(* channels, and the broker delivering messages, errors, notifications.    *)
(***************************************************************************)
IsConsumerChannel(c) == \E d \in DOMAIN decoders : decoders[d].dst = c

IsProducerChannel(c) == \E e \in DOMAIN encoders : encoders[e].src = c

AppReceive(c) ==
    /\ Alive
    /\ UNCHANGED claimVars
    /\ c \in DOMAIN channels
    /\ IsConsumerChannel(c)
    /\ \/ /\ channels[c].buf # <<>>
          /\ channels' = [channels EXCEPT ![c].buf = Tail(@)]
          /\ UNCHANGED decoders
       \/ /\ channels[c].cap = 0
          /\ \E d \in DOMAIN decoders :
               /\ decoders[d].dst = c /\ decoders[d].pc = "send"
               /\ decoders' = [decoders EXCEPT ![d].pc = "recv", ![d].cur = NoFlow]
          /\ UNCHANGED channels
    /\ UNCHANGED <<connVars, consSessions, prodSessions, encoders, loggers, panic, ret,
                   afterClose, warned,
                   events, started, manualEarly>>

AppSend(c, m) ==
    /\ Alive
    /\ UNCHANGED claimVars
    /\ events < MaxEvents
    /\ c \in DOMAIN channels
    /\ IsProducerChannel(c)
    /\ \/ /\ Len(channels[c].buf) < channels[c].cap
          /\ channels' = [channels EXCEPT ![c].buf = Append(@, m)]
          /\ UNCHANGED encoders
       \/ /\ channels[c].cap = 0
          /\ \E e \in DOMAIN encoders :
               /\ encoders[e].src = c /\ encoders[e].pc = "recv"
               /\ encoders' = [encoders EXCEPT ![e].pc = "send", ![e].cur = m]
          /\ UNCHANGED channels
    /\ events' = events + 1
    /\ UNCHANGED <<connVars, consSessions, prodSessions, decoders, loggers, panic, ret,
                   afterClose, warned,
                   started, manualEarly>>

BrokerMessage(s, b) ==
    /\ Alive
    /\ UNCHANGED claimVars
    /\ events < MaxEvents
    /\ s \in DOMAIN consSessions
    /\ ~consSessions[s].closed
    /\ consSessions' = [consSessions EXCEPT ![s].msgs = Append(@, b)]
    /\ events' = events + 1
    /\ UNCHANGED <<connVars, prodSessions, channels, decoders, encoders, loggers, panic,
                   ret, afterClose, warned, started, manualEarly>>

BrokerConsumerError(s) ==
    /\ Alive
    /\ UNCHANGED claimVars
    /\ events < MaxReports
    /\ s \in DOMAIN consSessions
    /\ ~consSessions[s].closed
    /\ consSessions' = [consSessions EXCEPT ![s].errs = @ + 1]
    /\ events' = events + 1
    /\ UNCHANGED <<connVars, prodSessions, channels, decoders, encoders, loggers, panic,
                   ret, afterClose, warned, started, manualEarly>>

BrokerNotification(s) ==
    /\ Alive
    /\ UNCHANGED claimVars
    /\ events < MaxReports
    /\ s \in DOMAIN consSessions
    /\ ~consSessions[s].closed
    /\ consSessions' = [consSessions EXCEPT ![s].notes = @ + 1]
    /\ events' = events + 1
    /\ UNCHANGED <<connVars, prodSessions, channels, decoders, encoders, loggers, panic,
                   ret, afterClose, warned, started, manualEarly>>

BrokerProducerError(s) ==
    /\ Alive
    /\ UNCHANGED claimVars
    /\ events < MaxReports
    /\ s \in DOMAIN prodSessions
    /\ ~prodSessions[s].closed
    /\ prodSessions' = [prodSessions EXCEPT ![s].errs = @ + 1]
    /\ events' = events + 1
    /\ UNCHANGED <<connVars, consSessions, channels, decoders, encoders, loggers, panic,
                   ret, afterClose, warned, started, manualEarly>>

(***************************************************************************)
(* Specifications of the connector.  Spec: the exported methods called in  *)
(* any order.  LoggerSpec: the methods that start and end sessions, the    *)
(* logger goroutines and the broker's errors and notifications.            *)
(* BridgeSpec: sessions that are started with any channel length and stay  *)
(* open, the decode/encode goroutines, the application's reads and writes  *)
(* and the broker's messages.                                              *)
(***************************************************************************)
Init == InitConnector /\ InitConsumer

Sessions == 1..MaxStarts
Goroutines == 1..MaxStarts

Auth ==
    \/ \E u \in Users, p \in Passes : SetAuth(u, p)
    \/ \E eu \in EnvValues, ep \in EnvValues : SetAuthFromEnv(eu, ep)
    \/ SetAuthAnon

Configure == \E l \in 0..MaxChanLen : SetChannelLength(l)

Starts ==
    \/ \E o \in StartOutcomes : StartConsumer(o)
    \/ \E o \in StartOutcomes : StartProducer(o)

Closes == Close \/ CloseConsumer \/ CloseProducer

Accessors ==
    \/ ConsumerChannel
    \/ ProducerChannel
    \/ ConsumerErrors
    \/ ConsumerNotifications
    \/ ProducerErrors

Logger(g) ==
    LoggerEnter(g) \/ LoggerErrors(g) \/ LoggerNotifications(g) \/ LoggerSignal(g)

Loggers == \E g \in Goroutines : Logger(g)

Bridges ==
    \E g \in Goroutines :
        DecodeRecv(g) \/ DecodeSend(g) \/ EncodeRecv(g) \/ EncodeSend(g)

Traffic ==
    \/ \E c \in Goroutines : AppReceive(c)
    \/ \E c \in Goroutines, m \in AppFlows : AppSend(c, m)
    \/ \E s \in Sessions, b \in ConnPayloads : BrokerMessage(s, b)

Reports ==
    \/ \E s \in Sessions : BrokerConsumerError(s)
    \/ \E s \in Sessions : BrokerNotification(s)
    \/ \E s \in Sessions : BrokerProducerError(s)

Next == Configure \/ EnableManualErrorHandling \/ Starts \/ Closes \/ Accessors

Spec == Init /\ [][Next]_vars

AuthNext == Auth \/ Starts

AuthSpec == Init /\ [][AuthNext]_vars

LoggerNext == EnableManualErrorHandling \/ Starts \/ Closes \/ Loggers \/ Reports

LoggerSpec == Init /\ [][LoggerNext]_vars

\* The Go scheduler runs every logger goroutine that can take a step
FairLoggerSpec == LoggerSpec /\ \A g \in Goroutines : WF_vars(Logger(g))

BridgeNext ==
    \/ Configure
    \/ StartConsumer("ok") \/ StartProducer("ok")
    \/ Bridges
    \/ Traffic

BridgeSpec == Init /\ [][BridgeNext]_vars


(***************************************************************************)
(* The consumer-group handler: Setup, ConsumeClaim (one call per          *)
(* partition claim, each in its own goroutine), Cleanup.  A message is     *)
(* [off, value, src]: its offset in the partition, its wire bytes and,     *)
(* when an encode path wrote it, the FlowMessage it was serialised from.   *)
(***************************************************************************)
connAll == <<connVars, runVars, afterClose, warned, ret, events, started, manualEarly>>

\* close(consumer.ready) panics when ready is already closed
Setup ==
    /\ Alive
    /\ phase = "none"
    /\ phase' = "setup"
    /\ flows' = flows + 1
    /\ flowsClosed' = FALSE
    /\ IF ready = "closed"
         THEN panic' = "close of closed channel" /\ UNCHANGED ready
         ELSE panic' = "none" /\ ready' = "closed"
    /\ UNCHANGED <<connAll, claimMsgs, claimClosed, claimPc, claimCur, marked,
                   received, delivered>>

\* sarama calls ConsumeClaim for every claim once Setup has returned
ConsumeClaimCall(c) ==
    /\ Alive
    /\ phase = "setup"
    /\ claimPc[c] = "idle"
    /\ claimPc' = [claimPc EXCEPT ![c] = "range"]
    /\ UNCHANGED <<connAll, panic, ready, flows, flowsClosed, phase, claimMsgs, claimClosed,
                   claimCur, marked, received, delivered>>

\* Mutation: the loop takes the newest message of the claim first
ConsumeClaimRangeNewestFirst(c) ==
    /\ Alive
    /\ claimPc[c] = "range"
    /\ \/ /\ claimMsgs[c] # <<>>
          /\ claimCur' = [claimCur EXCEPT ![c] =
                 [off |-> claimMsgs[c][Len(claimMsgs[c])].off,
                  value |-> claimMsgs[c][Len(claimMsgs[c])].value,
                  src |-> claimMsgs[c][Len(claimMsgs[c])].src, flow |-> NoFlow]]
          /\ claimMsgs' = [claimMsgs EXCEPT ![c] = SubSeq(@, 1, Len(@) - 1)]
          /\ claimPc' = [claimPc EXCEPT ![c] = "mark"]
       \/ /\ claimMsgs[c] = <<>> /\ claimClosed[c]
          /\ claimPc' = [claimPc EXCEPT ![c] = "returned"]
          /\ UNCHANGED <<claimCur, claimMsgs>>
    /\ UNCHANGED <<connAll, panic, ready, flows, flowsClosed, phase, claimClosed, marked,
                   received, delivered>>

\* for message := range claim.Messages(): the next message, or the end of the loop
ConsumeClaimRange(c) ==
    /\ Alive
    /\ claimPc[c] = "range"
    /\ \/ /\ claimMsgs[c] # <<>>
          /\ claimCur' = [claimCur EXCEPT ![c] =
                 [off |-> Head(claimMsgs[c]).off, value |-> Head(claimMsgs[c]).value,
                  src |-> Head(claimMsgs[c]).src, flow |-> NoFlow]]
          /\ claimMsgs' = [claimMsgs EXCEPT ![c] = Tail(@)]
          /\ claimPc' = [claimPc EXCEPT ![c] = "mark"]
       \/ /\ claimMsgs[c] = <<>> /\ claimClosed[c]
          /\ claimPc' = [claimPc EXCEPT ![c] = "returned"]
          /\ UNCHANGED <<claimCur, claimMsgs>>
    /\ UNCHANGED <<connAll, panic, ready, flows, flowsClosed, phase, claimClosed, marked,
                   received, delivered>>

\* Mutation: the message is not marked
ConsumeClaimMarkSkipped(c) ==
    /\ Alive
    /\ claimPc[c] = "mark"
    /\ marked' = marked
    /\ claimPc' = [claimPc EXCEPT ![c] = "decode"]
    /\ UNCHANGED <<connAll, panic, ready, flows, flowsClosed, phase, claimMsgs, claimClosed,
                   claimCur, received, delivered>>

\* session.MarkMessage(message, "")
ConsumeClaimMark(c) ==
    /\ Alive
    /\ claimPc[c] = "mark"
    /\ marked' = [marked EXCEPT ![c] = Append(@, claimCur[c].off)]
    /\ claimPc' = [claimPc EXCEPT ![c] = "decode"]
    /\ UNCHANGED <<connAll, panic, ready, flows, flowsClosed, phase, claimMsgs, claimClosed,
                   claimCur, received, delivered>>

\* Mutation: a decode error ends the loop instead of skipping the message
ConsumeClaimDecodeReturns(c) ==
    /\ Alive
    /\ claimPc[c] = "decode"
    /\ LET u == Unmarshal(claimCur[c].value)
       IN  IF u.ok
             THEN /\ claimCur' = [claimCur EXCEPT ![c].flow = u.msg]
                  /\ claimPc' = [claimPc EXCEPT ![c] = "send"]
             ELSE /\ claimCur' = [claimCur EXCEPT ![c] = NoMsg]
                  /\ claimPc' = [claimPc EXCEPT ![c] = "returned"]
    /\ UNCHANGED <<connAll, panic, ready, flows, flowsClosed, phase, claimMsgs, claimClosed,
                   marked, received, delivered>>

\* proto.Unmarshal(message.Value, flowMsg); on an error: log and continue
ConsumeClaimDecode(c) ==
    /\ Alive
    /\ claimPc[c] = "decode"
    /\ LET u == Unmarshal(claimCur[c].value)
       IN  IF u.ok
             THEN /\ claimCur' = [claimCur EXCEPT ![c].flow = u.msg]
                  /\ claimPc' = [claimPc EXCEPT ![c] = "send"]
             ELSE /\ claimCur' = [claimCur EXCEPT ![c] = NoMsg]
                  /\ claimPc' = [claimPc EXCEPT ![c] = "range"]
    /\ UNCHANGED <<connAll, panic, ready, flows, flowsClosed, phase, claimMsgs, claimClosed,
                   marked, received, delivered>>

\* Mutation: a fresh FlowMessage is sent instead of the decoded one
ConsumeClaimSendFresh(c) ==
    /\ Alive
    /\ claimPc[c] = "send"
    /\ flows # 0
    /\ received' = [received EXCEPT ![c] =
           Append(@, [off |-> claimCur[c].off, flow |-> ZeroFlow,
                      src |-> claimCur[c].src])]
    /\ claimCur' = [claimCur EXCEPT ![c] = NoMsg]
    /\ claimPc' = [claimPc EXCEPT ![c] = "range"]
    /\ UNCHANGED <<connAll, panic, ready, flows, flowsClosed, phase, claimMsgs, claimClosed,
                   marked, delivered>>

\* consumer.flows <- flowMsg: flows is unbuffered, the send completes when
\* the reader takes the message
ConsumeClaimSend(c) ==
    /\ Alive
    /\ claimPc[c] = "send"
    /\ flows # 0
    /\ received' = [received EXCEPT ![c] =
           Append(@, [off |-> claimCur[c].off, flow |-> claimCur[c].flow,
                      src |-> claimCur[c].src])]
    /\ claimCur' = [claimCur EXCEPT ![c] = NoMsg]
    /\ claimPc' = [claimPc EXCEPT ![c] = "range"]
    /\ UNCHANGED <<connAll, panic, ready, flows, flowsClosed, phase, claimMsgs, claimClosed,
                   marked, delivered>>

\* Cleanup runs once all ConsumeClaim goroutines have exited
Cleanup ==
    /\ Alive
    /\ phase = "setup"
    /\ \A c \in Claims : claimPc[c] = "returned"
    /\ phase' = "cleanup"
    /\ UNCHANGED <<connAll, panic, ready, flows, flowsClosed, claimMsgs, claimClosed,
                   claimPc,
                   claimCur, marked, received, delivered>>

\* Messages put on the claims 1..n so far
RECURSIVE Delivered(_)
Delivered(n) == IF n = 0 THEN 0 ELSE Len(delivered[n]) + Delivered(n - 1)

\* The encode path: proto.Marshal(m) written to the topic, arriving on claim c
ProduceFlow(c, m) ==
    /\ Alive
    /\ phase = "setup"
    /\ ~claimClosed[c]
    /\ Delivered(NumClaims) < MaxMsgs
    /\ delivered' = [delivered EXCEPT ![c] = Append(@, [value |-> Marshal(m), src |-> m])]
    /\ claimMsgs' = [claimMsgs EXCEPT ![c] =
           Append(@, [off |-> Len(delivered[c]) + 1, value |-> Marshal(m), src |-> m])]
    /\ UNCHANGED <<connAll, panic, ready, flows, flowsClosed, phase, claimClosed, claimPc,
                   claimCur, marked, received>>

\* Bytes on the topic that no encode path of this package wrote
DeliverRaw(c, b) ==
    /\ Alive
    /\ phase = "setup"
    /\ ~claimClosed[c]
    /\ Delivered(NumClaims) < MaxMsgs
    /\ delivered' = [delivered EXCEPT ![c] = Append(@, [value |-> b, src |-> NoFlow])]
    /\ claimMsgs' = [claimMsgs EXCEPT ![c] =
           Append(@, [off |-> Len(delivered[c]) + 1, value |-> b, src |-> NoFlow])]
    /\ UNCHANGED <<connAll, panic, ready, flows, flowsClosed, phase, claimClosed, claimPc,
                   claimCur, marked, received>>

\* The session ends or the partition is revoked: claim.Messages() is closed
ClaimClose(c) ==
    /\ Alive
    /\ phase = "setup"
    /\ ~claimClosed[c]
    /\ claimClosed' = [claimClosed EXCEPT ![c] = TRUE]
    /\ UNCHANGED <<connAll, panic, ready, flows, flowsClosed, phase, claimMsgs, claimPc,
                   claimCur, marked, received, delivered>>

\* What is put on the claims in ClaimSpec: a FlowMessage with a one-byte
\* and a two-byte varint, and a malformed payload (a tag without its value)
ClaimFlows == {[Type |-> 1, TimeReceived |-> 150]}

RawPayloads == {<<8>>}

ConsumeClaim(c) ==
    \/ ConsumeClaimCall(c)
    \/ ConsumeClaimRange(c)
    \/ ConsumeClaimMark(c)
    \/ ConsumeClaimDecode(c)
    \/ ConsumeClaimSend(c)

ClaimNext ==
    \/ Setup
    \/ Cleanup
    \/ \E c \in Claims :
         \/ ConsumeClaim(c)
         \/ ClaimClose(c)
         \/ \E m \in ClaimFlows : ProduceFlow(c, m)
         \/ \E b \in RawPayloads : DeliverRaw(c, b)

ClaimSpec == Init /\ [][ClaimNext]_vars

\* The Go scheduler runs every goroutine that can take a step, and the
\* reader of Consumer.flows keeps receiving
FairClaimSpec ==
    ClaimSpec /\ WF_vars(Setup) /\ \A c \in Claims : WF_vars(ConsumeClaim(c))

\* Every FlowMessage sent through the encode path and the decode path
RoundTripNext ==
    \/ Setup
    \/ \E c \in Claims :
         \/ ConsumeClaim(c)
         \/ \E m \in FlowMessages : ProduceFlow(c, m)

RoundTripSpec == Init /\ [][RoundTripNext]_vars


(***************************************************************************)
(* Properties.                                                             *)
(***************************************************************************)
ConsumerGoroutineRunning ==
    \/ \E d \in DOMAIN decoders : decoders[d].pc # "done"
    \/ \E g \in DOMAIN loggers : loggers[g].kind = "consumer" /\ loggers[g].pc # "done"

StartConsumerFails == \E o \in {"tlsErr", "connErr"} : StartConsumer(o)

\* C1, as stated: a StartConsumer call that fails to establish the session
\* returns a non-nil error, spawns no goroutine, and no decode loop or
\* consumer logger is running after it.
C1_FailedStartLeavesNoGoroutine ==
    [][StartConsumerFails =>
         /\ ret' = "err"
         /\ decoders' = decoders /\ loggers' = loggers
         /\ ~ConsumerGoroutineRunning']_vars

\* C1, amended: a StartConsumer call that fails to establish the session
\* returns a non-nil error and spawns no goroutine: the goroutines that exist
\* after the call are those that existed before it, in the same state, so
\* none is running afterwards when none was running before.
C1_FailedStartSpawnsNoGoroutine ==
    [][StartConsumerFails =>
         /\ ret' = "err"
         /\ decoders' = decoders /\ encoders' = encoders /\ loggers' = loggers
         /\ (~ConsumerGoroutineRunning => ~ConsumerGoroutineRunning')]_vars

\* A failed StartConsumer on a connector whose earlier consumer session still runs
C1_Witness ==
    /\ ret = "err"
    /\ consumer = 0
    /\ ConsumerGoroutineRunning

\* C3: when EnableManualErrorHandling was called before any Start* method,
\* no consumer logger and no producer logger is ever spawned, whatever
\* StartConsumer, StartProducer and Close* calls follow.
C3_NoLoggerWhenManualFirst == manualEarly => loggers = <<>>

\* Manual mode first, then a consumer and a producer session, one of them closed
C3_Witness ==
    /\ manualEarly
    /\ consSessions # <<>> /\ prodSessions # <<>>
    /\ decoders # <<>> /\ encoders # <<>>
    /\ \E s \in DOMAIN prodSessions : prodSessions[s].closed

\* C4: a Close that directly follows a Close, in any connector state, and a
\* CloseConsumer on a connector on which no consumer was started, do not panic.
C4_CloseTwiceDoesNotPanic ==
    [][((afterClose /\ Close) \/ (consSessions = <<>> /\ CloseConsumer))
         => panic' = "none"]_vars

AuthenticatedConfig == [tls |-> TRUE, sasl |-> TRUE, user |-> user, pass |-> pass]

\* C5: every session opened by StartConsumer or by StartProducer is
\* configured with TLS enabled and SASL enabled with the connector's
\* current credential pair.
C5_SessionsAreAuthenticated ==
    [][/\ Len(consSessions') > Len(consSessions) =>
            consSessions'[Len(consSessions')].conf = AuthenticatedConfig
       /\ Len(prodSessions') > Len(prodSessions) =>
            prodSessions'[Len(prodSessions')].conf = AuthenticatedConfig]_vars

\* C8: no sequence of calls of the exported methods ends in a panic.
C8_NoCallPanics == panic = "none"

SideState(h, ss) ==
    IF h = 0 THEN "uninitialized" ELSE IF ss[h].closed THEN "closed" ELSE "running"

ConsumerState == SideState(consumer, consSessions)

ProducerState == SideState(producer, prodSessions)

LifecycleMove(a, b) ==
    \/ a = b
    \/ a = "uninitialized" /\ b = "running"
    \/ a = "running" /\ b = "closed"
    \/ a = "closed" /\ b = "running"

DecodeLoopWorking ==
    \E d \in DOMAIN decoders :
        /\ decoders[d].sess = consumer /\ decoders[d].dst = consumerChannel
        /\ decoders[d].pc = "recv"
        /\ ~channels[consumerChannel].closed

EncodeLoopWorking ==
    \E e \in DOMAIN encoders :
        /\ encoders[e].sess = producer /\ encoders[e].src = producerChannel
        /\ encoders[e].pc = "recv"

\* C9: each side moves only uninitialized -> running -> closed -> running,
\* and a successful StartConsumer (StartProducer) brings its side to running
\* with a working decode (encode) loop, also after a close.
C9_Lifecycle ==
    [][/\ LifecycleMove(ConsumerState, ConsumerState')
       /\ LifecycleMove(ProducerState, ProducerState')
       /\ StartConsumer("ok") => (ConsumerState' = "running" /\ DecodeLoopWorking')
       /\ StartProducer("ok") => (ProducerState' = "running" /\ EncodeLoopWorking')]_vars


LoggerRunning(g) ==
    Alive /\ g \in DOMAIN loggers /\ loggers[g].pc # "done"

\* The channels the logger selected on last belong to a session that has
\* been closed: Errors() and Notifications() of that session are closed
SourceClosed(g) ==
    /\ g \in DOMAIN loggers
    /\ loggers[g].sess # 0
    /\ IF loggers[g].kind = "consumer"
         THEN consSessions[loggers[g].sess].closed
         ELSE prodSessions[loggers[g].sess].closed

\* C7: a logger goroutine spawned by StartConsumer or StartProducer stops
\* running once a channel it reads (consumer errors, consumer
\* notifications, producer errors) is closed or once the signal channel is
\* closed; so after EnableManualErrorHandling every logger spawned so far
\* eventually stops.
C7_LoggersTerminate ==
    \A g \in Goroutines :
        (LoggerRunning(g) /\ (manualErrSignal = "closed" \/ SourceClosed(g)))
            ~> ~LoggerRunning(g)


WellFormed(c, i) == Unmarshal(delivered[c][i].value).ok

Forwarded(c, i) == \E k \in DOMAIN received[c] : received[c][k].off = i

AfterMalformed(c, i) ==
    /\ i \in DOMAIN delivered[c]
    /\ WellFormed(c, i)
    /\ \E j \in 1..(i - 1) : ~WellFormed(c, j)

\* C2: in the consume loop a message whose payload fails to decode is never
\* forwarded to the output channel, and it does not end the loop: every
\* well-formed message that arrives on the claim after a malformed one is
\* eventually forwarded, the reader receiving all along.  (An arrival and
\* a forward are never undone, so "each arrival leads to its forward" is
\* "from some point on every such arrival has been forwarded".)
C2_MalformedSkipped ==
    /\ [](\A c \in Claims : \A k \in DOMAIN received[c] :
             WellFormed(c, received[c][k].off))
    /\ <>[](\A c \in Claims : \A i \in 1..MaxMsgs :
               AfterMalformed(c, i) => Forwarded(c, i))

\* A claim whose first message is malformed and whose second one has been
\* forwarded
C2_Witness ==
    \E c \in Claims :
        /\ AfterMalformed(c, 2) /\ ~WellFormed(c, 1)
        /\ Forwarded(c, 2) /\ ~Forwarded(c, 1)

\* C6: every Setup of a session installs a newly made channel, and once the
\* session has ended that channel is eventually closed, so that a reader
\* blocked on it is released.
C6_ChannelClosedAfterSession ==
    /\ [][Setup => (flows' # 0 /\ flows' # flows)]_vars
    /\ (phase = "cleanup") ~> flowsClosed

\* Messages taken from claim c that the loop is still working on
InLoop(c) == IF claimPc[c] \in {"mark", "decode", "send"} THEN 1 ELSE 0

\* C10: a FlowMessage m serialised by the encode path and decoded by the
\* consume loop is delivered on the output channel as a message equal to
\* m: no such message is dropped, and each one forwarded equals its source.
C10_RoundTrip ==
    \A c \in Claims :
        /\ \A k \in DOMAIN received[c] :
               received[c][k].src # NoFlow => received[c][k].flow = received[c][k].src
        /\ claimPc[c] = "send" => claimCur[c].flow = claimCur[c].src
        /\ Len(delivered[c]) = Len(claimMsgs[c]) + InLoop(c) + Len(received[c])

\* A message with two-byte varints and the zero message (an empty payload)
\* have gone round
C10_Witness ==
    /\ \E c \in Claims : \E k \in DOMAIN received[c] :
          /\ received[c][k].src = [Type |-> 150, TimeReceived |-> 150]
          /\ received[c][k].flow = received[c][k].src
    /\ \E c \in Claims : \E k \in DOMAIN received[c] :
          /\ received[c][k].src = ZeroFlow
          /\ received[c][k].flow = ZeroFlow

\* C11: SetAuthFromEnv returns an error exactly when KAFKA_SASL_USER or
\* KAFKA_SASL_PASS is unset or empty, and when it returns no error the
\* connector's credential pair is the pair of environment values.
C11_SetAuthFromEnv ==
    [][\A eu \in EnvValues, ep \in EnvValues :
          SetAuthFromEnv(eu, ep) =>
              /\ (ret' = "err") <=> (eu = "" \/ ep = "")
              /\ (ret' = "ok") => (user' = eu /\ pass' = ep)]_vars

\* SetAuthFromEnv has failed on a missing password, leaving only the user set
C11_Witness == ret = "err" /\ user = "bob" /\ pass = ""

\* What the connector holds and runs
ConnectorState == <<connVars, runVars, panic>>

\* C12: Close, CloseConsumer and CloseProducer, called while the sessions
\* they address were never initialized, change no connector state and log
\* a warning.
C12_CloseUninitialized ==
    [][/\ (consSessions = <<>> /\ CloseConsumer)
            => (ConnectorState' = ConnectorState /\ warned')
       /\ (prodSessions = <<>> /\ CloseProducer)
            => (ConnectorState' = ConnectorState /\ warned')
       /\ (consSessions = <<>> /\ prodSessions = <<>> /\ Close)
            => (ConnectorState' = ConnectorState /\ warned')]_vars

\* The goroutines sending on Consumer.flows at this moment
FlowsWriters == {c \in Claims : claimPc[c] = "send"}

\* The goroutines receiving from Errors() of session s of the given kind
ErrorsReaders(kind, s) ==
    {g \in DOMAIN loggers :
        loggers[g].kind = kind /\ loggers[g].pc = "select" /\ loggers[g].sess = s}

\* C13: at every moment each channel has at most one writer and at most
\* one reader: the typed consumer channel is written by one loop even when
\* several partition claims are consumed at once, and the error and
\* notification channels of a session are read by at most one logger, also
\* across a close and restart of the session.
C13_SingleWriterSingleReader ==
    /\ Cardinality(FlowsWriters) <= 1
    /\ \A s \in DOMAIN consSessions : Cardinality(ErrorsReaders("consumer", s)) <= 1
    /\ \A s \in DOMAIN prodSessions : Cardinality(ErrorsReaders("producer", s)) <= 1

\* A step leaves the buffer of channel c alone, takes its head, or appends
\* one message where there is room
BufferMove(c) ==
    LET b == channels[c].buf
        b2 == channels'[c].buf
    IN  \/ b2 = b
        \/ b # <<>> /\ b2 = Tail(b)
        \/ Len(b) < channels[c].cap /\ Len(b2) = Len(b) + 1 /\ SubSeq(b2, 1, Len(b)) = b

\* A decode loop holding a message for its channel keeps it until the
\* channel takes it or, on an unbuffered channel, the reader does
SenderKeeps(d) ==
    LET c == decoders[d].dst
    IN  decoders[d].pc = "send" =>
            \/ decoders'[d] = decoders[d]
            \/ /\ Len(channels[c].buf) < channels[c].cap
               /\ channels'[c].buf = Append(channels[c].buf, decoders[d].cur)
            \/ channels[c].cap = 0 /\ AppReceive(c)

\* C14: the consumer and the producer channel never hold more messages
\* than the channel length configured when the Start* call made them (0
\* when never set), and a full channel makes the bridging loop wait: no
\* message is dropped or overwritten.
C14_BoundedChannels ==
    /\ [](\A c \in DOMAIN channels : Len(channels[c].buf) <= channels[c].cap)
    /\ [][/\ StartConsumer("ok") => (channels'[consumerChannel'].cap = channelLength)
          /\ StartProducer("ok") => (channels'[producerChannel'].cap = channelLength)
          /\ \A c \in DOMAIN channels :
                channels'[c].cap = channels[c].cap /\ BufferMove(c)
          /\ \A d \in DOMAIN decoders : SenderKeeps(d)]_vars

\* A consumer channel of length 1 is full and its decode loop waits with
\* the next message
C14_Witness ==
    \E d \in DOMAIN decoders :
        /\ decoders[d].pc = "send"
        /\ channels[decoders[d].dst].cap = 1
        /\ Len(channels[decoders[d].dst].buf) = 1
        /\ channelLength = 0

\* C15: the two sides are independent: CloseConsumer and StartConsumer
\* leave the producer session handle and the producer channel unchanged,
\* CloseProducer and StartProducer leave the consumer session handle and
\* the consumer channel unchanged.
C15_SidesIndependent ==
    [][/\ (CloseConsumer \/ \E o \in StartOutcomes : StartConsumer(o))
            => (producer' = producer /\ producerChannel' = producerChannel)
       /\ (CloseProducer \/ \E o \in StartOutcomes : StartProducer(o))
            => (consumer' = consumer /\ consumerChannel' = consumerChannel)]_vars

\* With both sides started, the consumer has been closed and the producer
\* session is still open behind its handle and channel
C15_Witness ==
    /\ consumer # 0 /\ consSessions[consumer].closed
    /\ producer # 0 /\ ~prodSessions[producer].closed
    /\ producerChannel # 0 /\ consumerChannel # 0

\* C16: the signal channel is closed at most once: EnableManualErrorHandling
\* called when the channel is already closed does not close it again, a
\* second close being a run-time panic.
C16_SignalClosedOnce ==
    [][(EnableManualErrorHandling /\ manualErrSignal = "closed")
          => (panic' = "none" /\ manualErrSignal' = "closed")]_vars

StartFails ==
    \E o \in {"tlsErr", "connErr"} : StartConsumer(o) \/ StartProducer(o)

\* C17: a StartConsumer or StartProducer call that returns an error leaves
\* the connector as it was: the session handles, the consumer and producer
\* channels and the signal channel are unchanged, so a session that was
\* running before the call can still be closed through its handle.
C17_FailedStartChangesNothing ==
    [][StartFails =>
         /\ ret' = "err"
         /\ consumer' = consumer /\ producer' = producer
         /\ consumerChannel' = consumerChannel /\ producerChannel' = producerChannel
         /\ manualErrSignal' = manualErrSignal]_vars

\* The offsets of the well-formed messages among the first n of claim c
RECURSIVE WellFormedOffsets(_, _)
WellFormedOffsets(c, n) ==
    IF n = 0 THEN <<>>
    ELSE IF WellFormed(c, n) THEN Append(WellFormedOffsets(c, n - 1), n)
    ELSE WellFormedOffsets(c, n - 1)

\* Messages of claim c the loop has taken and is done with
Handled(c) == Len(delivered[c]) - Len(claimMsgs[c]) - InLoop(c)

\* C18: within one ConsumeClaim loop the well-formed messages are forwarded
\* to the flows channel in the order they were received from the claim,
\* each exactly once, decoded from their own bytes; and the loop returns
\* only after the claim's message stream is closed and drained.
C18_InOrderExactlyOnce ==
    \A c \in Claims :
        /\ [k \in DOMAIN received[c] |-> received[c][k].off]
               = WellFormedOffsets(c, Handled(c))
        /\ \A k \in DOMAIN received[c] :
               received[c][k].flow = Unmarshal(delivered[c][received[c][k].off].value).msg
        /\ claimPc[c] = "returned" => (claimClosed[c] /\ claimMsgs[c] = <<>>)

\* A loop has forwarded two messages and returned
C18_Witness ==
    \E c \in Claims : Len(received[c]) = 2 /\ claimPc[c] = "returned"

\* Messages of claim c the loop has taken from claim.Messages()
Taken(c) == Len(delivered[c]) - Len(claimMsgs[c])

\* C19: every message the loop receives from the claim, also one that fails
\* to decode, is marked on the session exactly once, and before it is
\* decoded and sent: the marks of a claim are the offsets taken so far, in
\* order, the one taken last being marked once the loop is past its
\* MarkMessage; so a message can be marked and never reach the reader.
C19_MarkedOnceBeforeSend ==
    \A c \in Claims :
        /\ marked[c] = [k \in 1..(Taken(c) - (IF claimPc[c] = "mark" THEN 1 ELSE 0)) |-> k]
        /\ \A k \in DOMAIN received[c] :
               \E n \in DOMAIN marked[c] : marked[c][n] = received[c][k].off

\* A loop has returned having marked a malformed message that the reader
\* never received
C19_Witness ==
    \E c \in Claims :
        /\ claimPc[c] = "returned"
        /\ \E n \in DOMAIN marked[c] :
              ~WellFormed(c, marked[c][n]) /\ ~Forwarded(c, marked[c][n])

====
